---------------------------- MODULE Spec2Model ----------------------------
(* Best-fit free-block selection benchmark (src/src/main.rs).              *)
(*                                                                         *)
(* Two specifications share the selection strategies:                      *)
(*   Spec      applies each of the four strategies to its own copy of one  *)
(*             input list (distinct addresses, lengths from both ends of   *)
(*             the unsigned range) and records what each one did;          *)
(*   SpecMain  is main(): workload creation, the random dispatch loop,     *)
(*             the cross-check assertions and the final report;            *)
(*   SpecMainFair is SpecMain with every index drawn again and again.      *)
EXTENDS Naturals, Sequences, FiniteSets

VARIABLES
    pc,          \* position in main, or "input" in Spec
    iter,        \* iterations of `for _ in 0..ITERS` completed
    todo,        \* create_free_blocks: loop iterations left
    result,      \* create_free_blocks: result
    curr_addr,   \* create_free_blocks: curr_addr
    max_alloc,   \* create_free_blocks: max_alloc
    free_blocks, \* the list create_free_blocks returned / the input list
    alloc,       \* the allocation target
    work,        \* main: the clones not yet handed out
    answers,     \* main: answers[curr_test]
    finished,    \* main: finished[curr_test]
    given,       \* per index: the list work.pop() handed to it, before the call
    calls,       \* per index: strategy invocations in this iteration
    hits,        \* per ProfileBlock: timed regions executed
    printed,     \* number of times the profiler report was printed
    out          \* Spec: per strategy, the outcome of its call

vars == << pc, iter, todo, result, curr_addr, max_alloc, free_blocks, alloc,
           work, answers, finished, given, calls, hits, printed, out >>

-----------------------------------------------------------------------------
(* Bounds of the model *)

\* width in bits of the unsigned integer type (u64 in the source)
W == 3

\* longest input list of Spec
MaxLen == 3

\* main.rs:24 FREE_BLOCKS_SIZE = 1024 * 16, scaled down
FREE_BLOCKS_SIZE == 2

\* main.rs:31 the `+ 10` of the block count, scaled down
MIN_BLOCKS == 2

\* main.rs:21 MAX_POW2_FREE_SIZE = 8, scaled down
MAX_POW2_FREE_SIZE == 2

\* main.rs:133 ITERS = 10000, scaled down
ITERS == 2

-----------------------------------------------------------------------------
(* Data *)

\* u64::MAX
U64_MAX == 2^W - 1

Location(address, length) == [address |-> address, length |-> length]

\* #[derive(Default)]
LocationDefault == Location(0, 0)

\* the variants of ProfileBlock, in declaration order
ProfileBlock == << "CreateWork", "First", "FilterSwapRemove", "Fold", "ForLoop" >>

\* std::mem::variant_count::<ProfileBlock>()
NUM_PROFILE_BLOCKS == Len(ProfileBlock)

Tests == 0 .. (NUM_PROFILE_BLOCKS - 1)

Blocks == { ProfileBlock[i] : i \in 1 .. NUM_PROFILE_BLOCKS }

\* the values rdtsc() % n can take
RdtscMod(n) == 0 .. (n - 1)

\* The outcome of a call: a panic, or a returned Location and the list left.
Panic == [kind |-> "panic"]
Ok(ret, blocks) == [kind |-> "ok", ret |-> ret, free_blocks |-> blocks]

\* Option<usize>: None is 0, Some(i) is the 1-based position i
None == 0

-----------------------------------------------------------------------------
(* Library operations used by the strategies *)

\* iter().enumerate().filter(|(_, b)| b.length >= alloc): the positions kept
Filter(blocks, a) ==
    SelectSeq([i \in 1 .. Len(blocks) |-> i], LAMBDA i : blocks[i].length >= a)

RECURSIVE MinFold(_, _, _, _)
MinFold(blocks, idxs, k, best) ==
    IF k > Len(idxs) THEN best
    ELSE MinFold(blocks, idxs, k + 1,
                 IF blocks[best].length > blocks[idxs[k]].length
                 THEN idxs[k] ELSE best)

RECURSIVE MinFoldLast(_, _, _, _)
MinFoldLast(blocks, idxs, k, best) ==
    IF k > Len(idxs) THEN best
    ELSE MinFoldLast(blocks, idxs, k + 1,
                     IF blocks[best].length >= blocks[idxs[k]].length
                     THEN idxs[k] ELSE best)

\* variant: among equal keys the last element wins
min_by_key_last(blocks, idxs) ==
    IF idxs = << >> THEN None ELSE MinFoldLast(blocks, idxs, 2, idxs[1])

\* Iterator::min_by_key(|b| b.length): reduce keeping the left element unless
\* it compares Greater; None on an empty iterator
min_by_key(blocks, idxs) ==
    IF idxs = << >> THEN None ELSE MinFold(blocks, idxs, 2, idxs[1])

\* variant: the list is shortened without moving the last element
swap_remove_truncate(blocks, index) ==
    IF index < 1 \/ index > Len(blocks) THEN Panic
    ELSE Ok(blocks[index], SubSeq(blocks, 1, Len(blocks) - 1))

\* Vec::swap_remove(index): panics out of bounds, else the last element
\* takes the removed slot
swap_remove(blocks, index) ==
    IF index < 1 \/ index > Len(blocks) THEN Panic
    ELSE Ok(blocks[index],
            SubSeq([blocks EXCEPT ![index] = blocks[Len(blocks)]],
                   1, Len(blocks) - 1))

\* variant: unwrap_or_default in place of unwrap
UnwrapOrDefault(blocks, idx) ==
    IF idx = None THEN Ok(LocationDefault, blocks)
    ELSE swap_remove(blocks, idx)

\* Option::unwrap / expect on a position, then swap_remove
UnwrapSwapRemove(blocks, idx) ==
    IF idx = None THEN Panic ELSE swap_remove(blocks, idx)

-----------------------------------------------------------------------------
(* The four strategies *)

first_solution(blocks, a) ==
    LET idx == min_by_key(blocks, Filter(blocks, a))
    IN  IF idx = None THEN Panic
        ELSE LET next_block == blocks[idx]
             IN  Ok(next_block,
                    SelectSeq(blocks,
                              LAMBDA b : b.address # next_block.address))

second_solution(blocks, a) ==
    UnwrapSwapRemove(blocks, min_by_key(blocks, Filter(blocks, a)))

RECURSIVE ThirdFold(_, _, _, _)
ThirdFold(blocks, a, idx, acc) ==
    IF idx > Len(blocks) THEN acc
    ELSE ThirdFold(blocks, a, idx + 1,
            IF acc = None
            THEN (IF blocks[idx].length >= a THEN idx ELSE None)
            ELSE (IF blocks[idx].length >= a
                     /\ blocks[idx].length < blocks[acc].length
                  THEN idx ELSE acc))

third_solution(blocks, a) ==
    UnwrapSwapRemove(blocks, ThirdFold(blocks, a, 1, None))

RECURSIVE FourthLoopLe(_, _, _, _, _)
\* variant: `<=` in place of `<`
FourthLoopLe(blocks, a, i, smallest_length, best_index) ==
    IF i > Len(blocks) THEN best_index
    ELSE IF blocks[i].length >= a /\ blocks[i].length <= smallest_length
         THEN FourthLoopLe(blocks, a, i + 1, blocks[i].length, i)
         ELSE FourthLoopLe(blocks, a, i + 1, smallest_length, best_index)

RECURSIVE FourthLoop(_, _, _, _, _)
FourthLoop(blocks, a, i, smallest_length, best_index) ==
    IF i > Len(blocks) THEN best_index
    ELSE IF blocks[i].length >= a /\ blocks[i].length < smallest_length
         THEN FourthLoop(blocks, a, i + 1, blocks[i].length, i)
         ELSE FourthLoop(blocks, a, i + 1, smallest_length, best_index)

fourth_solution(blocks, a) ==
    UnwrapSwapRemove(blocks, FourthLoop(blocks, a, 1, U64_MAX, None))

\* the match on curr_test in main: which strategy an index runs
Solution(t, blocks, a) ==
    CASE t = 0 -> first_solution(blocks, a)
      [] t = 1 -> second_solution(blocks, a)
      [] t = 2 -> third_solution(blocks, a)
      [] t = 3 -> fourth_solution(blocks, a)
      [] OTHER -> Ok(LocationDefault, blocks)

Strategies == 0 .. 3

\* the match on curr_test in main: the ProfileBlock an index is timed under
Region(t) ==
    CASE t = 0 -> "First"
      [] t = 1 -> "FilterSwapRemove"
      [] t = 2 -> "Fold"
      [] t = 3 -> "ForLoop"


-----------------------------------------------------------------------------
(* State shared by the two specifications *)

NoList == << >>

Idle ==
    /\ iter = 0
    /\ todo = 0
    /\ result = NoList
    /\ curr_addr = 0
    /\ max_alloc = 0
    /\ work = << >>
    /\ answers = [t \in Tests |-> LocationDefault]
    /\ finished = [t \in Tests |-> FALSE]
    /\ given = [t \in Tests |-> NoList]
    /\ calls = [t \in Strategies |-> 0]
    /\ hits = [b \in Blocks |-> 0]
    /\ printed = 0

Pending == [kind |-> "pending"]

-----------------------------------------------------------------------------
(* Spec: each strategy applied once to its own copy of one input *)

\* lengths from both ends of the unsigned range
InputLens == {0, 1, 2, U64_MAX - 1, U64_MAX}

\* pairwise distinct addresses, ascending or descending along the list
InputAddr(n, up, i) == IF up THEN i - 1 ELSE n - i

InputLists ==
    UNION { { [i \in 1 .. n |-> Location(InputAddr(n, up, i), len[i])] :
                len \in [1 .. n -> InputLens], up \in BOOLEAN } :
            n \in 0 .. MaxLen }

InitInput ==
    /\ pc = "input"
    /\ Idle
    /\ free_blocks \in InputLists
    /\ alloc \in 0 .. U64_MAX
    /\ out = [t \in Strategies |-> Pending]

\* one strategy called on a clone of the input list
Call(t) ==
    /\ pc = "input"
    /\ out[t] = Pending
    /\ out' = [out EXCEPT ![t] = Solution(t, free_blocks, alloc)]
    /\ UNCHANGED << pc, iter, todo, result, curr_addr, max_alloc, free_blocks,
                    alloc, work, answers, finished, given, calls, hits,
                    printed >>

NextInput == \E t \in Strategies : Call(t)

Spec == InitInput /\ [][NextInput]_vars

-----------------------------------------------------------------------------
(* SpecMain: main() *)

InitMain ==
    /\ pc = "loop"
    /\ free_blocks = NoList
    /\ alloc = 0
    /\ out = [t \in Strategies |-> Pending]
    /\ Idle

\* time_work!(block, ..): one more timed region of that block
Timed(h, block) == [h EXCEPT ![block] = @ + 1]

\* `for _ in 0..ITERS`, entering create_free_blocks: the block count is drawn
CreateStart ==
    /\ pc = "loop"
    /\ iter < ITERS
    /\ \E r \in RdtscMod(FREE_BLOCKS_SIZE) : todo' = r + MIN_BLOCKS
    /\ result' = << >>
    /\ curr_addr' = 0
    /\ max_alloc' = 0
    /\ pc' = "create"
    /\ UNCHANGED << iter, free_blocks, alloc, work, answers, finished, given,
                    calls, hits, printed, out >>

\* variant: the running maximum is overwritten by the newest size
MaxLatest(a, b) == b

\* u64::max
Max(a, b) == IF a >= b THEN a ELSE b

\* variant: `=` in place of `+=`
BumpAssign(addr, next_size) == next_size

\* the address after a block: curr_addr += next_size (no wrap-around: the
\* largest address, 16393 * 256, is far below u64::MAX)
Bump(addr, next_size) == addr + next_size

\* one iteration of the loop of create_free_blocks
CreatePush ==
    /\ pc = "create"
    /\ todo > 0
    /\ \E r \in RdtscMod(MAX_POW2_FREE_SIZE) :
          LET next_size == 2^(r + 1)
          IN  /\ max_alloc' = Max(max_alloc, next_size)
              /\ result' = Append(result, Location(curr_addr, next_size))
              /\ curr_addr' = Bump(curr_addr, next_size)
    /\ todo' = todo - 1
    /\ UNCHANGED << pc, iter, free_blocks, alloc, work, answers, finished,
                    given, calls, hits, printed, out >>

\* variant: one clone per strategy
ClonesPerStrategy(blocks) == [i \in 1 .. Cardinality(Strategies) |-> blocks]

\* (0..NUM_PROFILE_BLOCKS).map(|_| free_blocks.clone()).collect()
Clones(blocks) == [i \in 1 .. NUM_PROFILE_BLOCKS |-> blocks]

\* create_free_blocks returns; the target is drawn, the clones are taken, the
\* CreateWork region ends, answers and finished are reset
CreateWork ==
    /\ pc = "create"
    /\ todo = 0
    /\ free_blocks' = result
    /\ IF max_alloc = 0
       THEN \* rdtsc() % 0
            /\ pc' = "panic"
            /\ UNCHANGED << alloc, work, hits >>
       ELSE /\ \E r \in RdtscMod(max_alloc) : alloc' = r
            /\ work' = Clones(result)
            /\ hits' = Timed(hits, "CreateWork")
            /\ pc' = "dispatch"
    /\ answers' = [t \in Tests |-> LocationDefault]
    /\ finished' = [t \in Tests |-> FALSE]
    /\ given' = [t \in Tests |-> NoList]
    /\ calls' = [t \in Strategies |-> 0]
    /\ UNCHANGED << iter, todo, result, curr_addr, max_alloc, printed, out >>

\* variant: the flag is never set
MarkFinishedNever(f, curr_test) == f

\* finished[curr_test] = true
MarkFinished(f, curr_test) == [f EXCEPT ![curr_test] = TRUE]

AllFinished == \A t \in Tests : finished[t]

\* the index is drawn and is already finished: `continue`
Skip(curr_test) ==
    /\ pc = "dispatch"
    /\ ~AllFinished
    /\ finished[curr_test]
    /\ UNCHANGED vars

\* the index is drawn and is not finished: a clone is popped and its arm runs
Run(curr_test) ==
    /\ pc = "dispatch"
    /\ ~AllFinished
    /\ ~finished[curr_test]
    /\ IF work = << >>
       THEN \* work.pop().unwrap()
            /\ pc' = "panic"
            /\ UNCHANGED << work, answers, finished, given, calls, hits >>
       ELSE LET curr_work == work[Len(work)]
                answer == Solution(curr_test, curr_work, alloc)
            IN  /\ work' = SubSeq(work, 1, Len(work) - 1)
                /\ given' = [given EXCEPT ![curr_test] = curr_work]
                /\ IF curr_test \in Strategies
                   THEN /\ calls' = [calls EXCEPT ![curr_test] = @ + 1]
                        /\ hits' = Timed(hits, Region(curr_test))
                   ELSE UNCHANGED << calls, hits >>
                /\ IF answer = Panic
                   THEN /\ pc' = "panic"
                        /\ UNCHANGED << answers, finished >>
                   ELSE /\ answers' = [answers EXCEPT ![curr_test] = answer.ret]
                        /\ finished' = MarkFinished(finished, curr_test)
                        /\ pc' = pc
    /\ UNCHANGED << iter, todo, result, curr_addr, max_alloc, free_blocks,
                    alloc, printed, out >>

\* the three assert!s; the iteration's locals go out of scope and the next
\* iteration begins
Check ==
    /\ pc = "dispatch"
    /\ AllFinished
    /\ IF /\ answers[0] = answers[1]
          /\ answers[0] = answers[2]
          /\ answers[0] = answers[3]
       THEN /\ pc' = "loop"
            /\ iter' = iter + 1
            /\ todo' = 0
            /\ result' = NoList
            /\ curr_addr' = 0
            /\ max_alloc' = 0
            /\ free_blocks' = NoList
            /\ alloc' = 0
            /\ work' = << >>
            /\ answers' = [t \in Tests |-> LocationDefault]
            /\ finished' = [t \in Tests |-> FALSE]
            /\ given' = [t \in Tests |-> NoList]
            /\ calls' = [t \in Strategies |-> 0]
       ELSE /\ pc' = "abort"
            /\ UNCHANGED << iter, todo, result, curr_addr, max_alloc,
                            free_blocks, alloc, work, answers, finished,
                            given, calls >>
    /\ UNCHANGED << hits, printed, out >>

\* timeloop::print!()
Report ==
    /\ pc = "loop"
    /\ iter = ITERS
    /\ printed' = printed + 1
    /\ pc' = "done"
    /\ UNCHANGED << iter, todo, result, curr_addr, max_alloc, free_blocks,
                    alloc, work, answers, finished, given, calls, hits, out >>

NextMain ==
    \/ CreateStart
    \/ CreatePush
    \/ CreateWork
    \/ \E t \in RdtscMod(NUM_PROFILE_BLOCKS) : Skip(t)
    \/ \E t \in RdtscMod(NUM_PROFILE_BLOCKS) : Run(t)
    \/ Check
    \/ Report

SpecMain == InitMain /\ [][NextMain]_vars

\* Every index value is drawn again and again, so while an index is
\* unfinished the draw eventually hits one: the loop does not repeat
\* `continue` (Skip, which changes nothing) for ever. The other steps are
\* the single thread running on.
SpecMainFair == SpecMain /\ WF_vars(NextMain)

-----------------------------------------------------------------------------
(* Vocabulary of the properties *)

Range(blocks) == { blocks[i] : i \in 1 .. Len(blocks) }

\* positions of the blocks that fit the target
Qualifying(blocks, a) == { i \in 1 .. Len(blocks) : blocks[i].length >= a }

\* the lowest position among the shortest blocks that fit
BestFit(blocks, a) ==
    CHOOSE i \in Qualifying(blocks, a) :
        \A j \in Qualifying(blocks, a) :
            \/ blocks[i].length < blocks[j].length
            \/ blocks[i].length = blocks[j].length /\ i <= j

\* two blocks that fit share the minimal fitting length
HasTie(blocks, a) ==
    \E j \in Qualifying(blocks, a) :
        /\ j # BestFit(blocks, a)
        /\ blocks[j].length = blocks[BestFit(blocks, a)].length

PosOf(blocks, loc) == CHOOSE i \in 1 .. Len(blocks) : blocks[i] = loc

\* the list without position i, order kept
RemoveAt(blocks, i) ==
    SubSeq(blocks, 1, i - 1) \o SubSeq(blocks, i + 1, Len(blocks))

\* the list one shorter, the former last element in slot i
LastIntoSlot(blocks, i) ==
    [k \in 1 .. (Len(blocks) - 1) |->
        IF k = i THEN blocks[Len(blocks)] ELSE blocks[k]]

RECURSIVE SumLen(_, _)
\* the sum of the lengths of the first n blocks
SumLen(blocks, n) ==
    IF n = 0 THEN 0 ELSE SumLen(blocks, n - 1) + blocks[n].length

MaxLength(blocks) ==
    CHOOSE m \in { b.length : b \in Range(blocks) } :
        \A b \in Range(blocks) : b.length <= m

AllCalled == \A t \in Strategies : out[t] # Pending

-----------------------------------------------------------------------------
(* Properties of the strategies, under Spec *)

\* C2: on a list with distinct addresses, lengths below the maximum unsigned
\* value and a block that fits, every strategy returns the block at the lowest
\* position among the shortest blocks that fit.
C2_FirstShortestFit ==
    ( /\ pc = "input"
      /\ Qualifying(free_blocks, alloc) # {}
      /\ \A b \in Range(free_blocks) : b.length < U64_MAX )
    => \A t \in Strategies :
          out[t] # Pending =>
             /\ out[t].kind = "ok"
             /\ out[t].ret = free_blocks[BestFit(free_blocks, alloc)]
             /\ out[t].ret.length >= alloc

\* every strategy has answered on a list where a later block ties with the
\* winner
C2_Witness ==
    /\ pc = "input"
    /\ AllCalled
    /\ Qualifying(free_blocks, alloc) # {}
    /\ \A b \in Range(free_blocks) : b.length < U64_MAX
    /\ HasTie(free_blocks, alloc)
    /\ \A t \in Strategies : out[t].kind = "ok"

C4_NotFoundPanics ==
    ( /\ pc = "input"
      /\ \A b \in Range(free_blocks) : b.length < alloc )
    => \A t \in Strategies : out[t] \in {Pending, Panic}

\* all four strategies have panicked on a list of blocks that are too short
C4_Witness ==
    /\ pc = "input"
    /\ Len(free_blocks) >= 2
    /\ \A b \in Range(free_blocks) : b.length < alloc
    /\ \A t \in Strategies : out[t] = Panic

\* C10: on the full unsigned range, fourth_solution returns a block whenever
\* third_solution does, and the same block.
C10_FourthAgreesWithThird ==
    ( /\ pc = "input"
      /\ out[2] # Pending
      /\ out[3] # Pending
      /\ out[2].kind = "ok" )
    => ( out[3].kind = "ok" /\ out[3].ret = out[2].ret )

-----------------------------------------------------------------------------
(* Properties of main, under SpecMain *)

\* C1: on every generated list and target the strategies that have run
\* returned the same Location, and no assertion of main fails.
C1_AnswersAgree ==
    /\ pc # "abort"
    /\ pc = "dispatch" =>
          \A s, t \in Strategies :
             (finished[s] /\ finished[t]) => answers[s] = answers[t]

\* the example of the specification: [{0,2},{2,4},{6,2}] with target 2 gives
\* {0,2} from all four strategies
C1_Witness ==
    /\ pc = "dispatch"
    /\ AllFinished
    /\ free_blocks = << Location(0, 2), Location(2, 4), Location(6, 2) >>
    /\ alloc = 2
    /\ \A t \in Strategies : answers[t] = Location(0, 2)

\* C5: the generated list is non-empty, max_allocation is at least 2 and is
\* the largest length, the target is below it, some block fits, and nothing
\* in main panics.
C5_TargetSatisfiable ==
    /\ pc # "panic"
    /\ pc = "dispatch" =>
          /\ Len(free_blocks) > 0
          /\ max_alloc >= 2
          /\ max_alloc = MaxLength(free_blocks)
          /\ alloc < max_alloc
          /\ Qualifying(free_blocks, alloc) # {}

\* the largest target of a list whose last block is not its longest, after
\* all four strategies ran
C5_Witness ==
    /\ pc = "dispatch"
    /\ AllFinished
    /\ alloc = max_alloc - 1
    /\ free_blocks[Len(free_blocks)].length < max_alloc

\* C6: the list create_free_blocks returns has MIN_BLOCKS to
\* MIN_BLOCKS + FREE_BLOCKS_SIZE - 1 blocks, starts at address 0, is packed
\* (each address is the sum of the lengths before it, so strictly
\* increasing), and every length is a power of two from 2 to
\* 2^MAX_POW2_FREE_SIZE.
C6_PackedPowersOfTwo ==
    pc = "dispatch" =>
       /\ Len(free_blocks) >= MIN_BLOCKS
       /\ Len(free_blocks) < MIN_BLOCKS + FREE_BLOCKS_SIZE
       /\ free_blocks[1].address = 0
       /\ \A i \in 1 .. Len(free_blocks) :
             /\ free_blocks[i].address = SumLen(free_blocks, i - 1)
             /\ free_blocks[i].length
                   \in { 2^e : e \in 1 .. MAX_POW2_FREE_SIZE }
       /\ \A i \in 1 .. (Len(free_blocks) - 1) :
             free_blocks[i].address < free_blocks[i + 1].address

\* a list of the largest size with blocks of different lengths
C6_Witness ==
    /\ pc = "dispatch"
    /\ Len(free_blocks) = MIN_BLOCKS + FREE_BLOCKS_SIZE - 1
    /\ free_blocks[1].length # free_blocks[2].length

\* C7: in every iteration each strategy is invoked exactly once before the
\* assertions, inside its own profiled region, on a copy equal to the
\* generated list.
C7_EachStrategyOnce ==
    /\ pc = "dispatch" =>
          \A t \in Strategies :
             /\ calls[t] = (IF finished[t] THEN 1 ELSE 0)
             /\ finished[t] => given[t] = free_blocks
    /\ pc \in {"dispatch", "loop", "create", "done"} =>
          /\ hits["First"] = iter + calls[0]
          /\ hits["FilterSwapRemove"] = iter + calls[1]
          /\ hits["Fold"] = iter + calls[2]
          /\ hits["ForLoop"] = iter + calls[3]

\* the second iteration is about to be cross-checked
C7_Witness ==
    /\ pc = "dispatch"
    /\ AllFinished
    /\ iter = 1
    /\ \A t \in Strategies : calls[t] = 1 /\ given[t] = free_blocks
    /\ hits["ForLoop"] = 2

\* C8: the clones are as many as the strategies, the index is drawn modulo
\* that count, and every clone popped goes to a strategy.
C8_ClonesEqualStrategies ==
    /\ RdtscMod(NUM_PROFILE_BLOCKS) = Strategies
    /\ pc = "dispatch" =>
          /\ Len(work) + Cardinality({ t \in Tests : finished[t] })
                = Cardinality(Strategies)
          /\ \A t \in Tests : finished[t] => t \in Strategies

-----------------------------------------------------------------------------
(* Termination, under SpecMainFair *)

\* C9: with every index drawn again and again, each dispatch loop is left
\* only with every finished flag set, all ITERS iterations complete, and the
\* report is printed exactly once.
C9_RunsToCompletion ==
    /\ <>[](pc = "done" /\ iter = ITERS /\ printed = 1)
    /\ [][(pc = "dispatch" /\ pc' = "loop") => AllFinished]_vars
    /\ [](printed <= 1)

\* the report has been printed after the last iteration
C9_Witness ==
    /\ pc = "done"
    /\ iter = ITERS
    /\ printed = 1
    /\ hits["CreateWork"] = ITERS

=============================================================================
